---- MODULE Spec2Model ----
(***************************************************************************)
(* State-machine model of RLTrainer (rllib/core/rl_trainer/rl_trainer.py): *)
(* the parameter/optimizer registry, the module container, the build       *)
(* order check and the update pipeline.  One action per public method;     *)
(* every action records the hooks the method invoked, the exception it     *)
(* raised and the value it returned.                                       *)
(***************************************************************************)
EXTENDS Naturals, Sequences, FiniteSets

VARIABLES
  distributed,      \* RLTrainer.distributed (constructor argument)
  overridden,       \* which of the distributed hooks the concrete trainer overrides
  _module,          \* RLTrainer._module: None, or the container: its modules by
                    \* id and the state (weights) of each
  _optim_to_param,  \* RLTrainer._optim_to_param: optimizer -> list of references
  _param_to_optim,  \* RLTrainer._param_to_optim: reference -> optimizer
  _params,          \* RLTrainer._params: reference -> parameter
  build_called,     \* history: build() has been called at least once
  build_returned,   \* history: a build() call has returned without raising
  before_add,       \* history: when the last call was an add_module without a
                    \* wiring function that returned, the registry and the
                    \* container's ids before it; None otherwise
  caller,           \* the caller: "ready" to call, or holding what a call "returned"
  lastOp,           \* the public method called last, with its arguments
  exc,              \* the exception that call raised ("none" when it returned)
  hookLog,          \* the hooks that call invoked, in order
  ret               \* the value that call returned (None when it raised)

vars == <<distributed, overridden, _module, _optim_to_param, _param_to_optim,
          _params, build_called, build_returned, before_add, caller, lastOp, exc,
          hookLog, ret>>

config == <<distributed, overridden>>
registry == <<_optim_to_param, _param_to_optim, _params>>
history == <<build_called, build_returned>>

----------------------------------------------------------------------------
(* Bounds and the finite universe of backend objects.                      *)

\* most (parameters, optimizer) pairs one wiring function returns
MaxPairs == 2

\* largest loss value a per-module loss hook returns
MaxLoss == 3

\* Python's None, and a present value; ret holds one of the two
None == << >>
Some(x) == <<x>>
Val(opt) == opt[1]

\* what a module's get_state can report: the weights of a new module, and
\* weights that training or set_state left
InitialState == "w0"
ModuleStates == {"w0", "w1"}

\* the container object _module holds once built: the modules by id (Val)
\* and their states by id (State)
Built(container, module_state) == <<container, module_state>>
State(m) == m[2]
NewStates(container) == [module_id \in DOMAIN container |-> InitialState]

Optimizers == {"o1", "o2"}
Params == {"p1", "p2"}
ModuleIds == {"a", "b"}
\* module instances the caller can construct (module_cls.from_model_config)
Modules == {"mA", "mB", "mC"}
ModuleClasses == {"RLModule", "MultiAgentRLModule", "object"}
DistributedHooks == {"_make_distributed_module", "do_distributed_update"}

\* the parameters a backend reports for a module instance
get_parameters(module) ==
  CASE module = "mA" -> <<"p1">>
    [] module = "mB" -> <<"p2">>
    [] OTHER -> << >>

\* the hashable identity of a parameter (tf: variable.ref()); injective
get_param_ref(param) == <<"ref", param>>

Refs == {get_param_ref(p) : p \in Params}

----------------------------------------------------------------------------
(* Python dict and list helpers.                                           *)

EmptyDict == << >>

DictSet(d, k, v) == [x \in (DOMAIN d) \cup {k} |-> IF x = k THEN v ELSE d[x]]

DictDel(d, k) == [x \in (DOMAIN d) \ {k} |-> d[x]]

Range(s) == {s[i] : i \in DOMAIN s}

SeqsUpTo(S, n) == UNION {[1..k -> S] : k \in 0..n}

\* the parameter sequences of a pair: each parameter at most once, in the
\* order the backend enumerates parameters
ParamOrder == <<"p1", "p2">>
RECURSIVE Select(_, _)
Select(s, keep) ==
  IF s = << >> THEN << >>
  ELSE (IF Head(s) \in keep THEN <<Head(s)>> ELSE << >>) \o Select(Tail(s), keep)
ParamSeqs(available) == {Select(ParamOrder, keep) : keep \in SUBSET available}

\* what a wiring function (configure_optimizers, set_optimizer_fn) can return
\* when the parameters in `available` exist
Pairs(available) == ParamSeqs(available) \X Optimizers
PairLists(available) == SeqsUpTo(Pairs(available), MaxPairs)

----------------------------------------------------------------------------
(* The registry (the three mappings) as one value.                         *)

Registry(o2p, p2o, ps) == [o2p |-> o2p, p2o |-> p2o, params |-> ps]

\* an inner loop body that records no owner for the reference
register_param_unowned(reg, param, optimizer) ==
  LET param_ref == get_param_ref(param) IN
  Registry(DictSet(reg.o2p, optimizer, Append(reg.o2p[optimizer], param_ref)),
           reg.p2o,
           DictSet(reg.params, param_ref, param))

\* the body of the inner loop: one parameter of a pair
register_param(reg, param, optimizer) ==
  LET param_ref == get_param_ref(param) IN
  Registry(DictSet(reg.o2p, optimizer, Append(reg.o2p[optimizer], param_ref)),
           DictSet(reg.p2o, param_ref, optimizer),
           DictSet(reg.params, param_ref, param))

RECURSIVE register_param_seq(_, _, _)
register_param_seq(reg, param_seq, optimizer) ==
  IF param_seq = << >> THEN reg
  ELSE register_param_seq(register_param(reg, Head(param_seq), optimizer),
                          Tail(param_seq), optimizer)

\* the body of the outer loop: one (param_seq, optimizer) pair
register_pair(reg, param_seq, optimizer) ==
  register_param_seq([reg EXCEPT !.o2p = DictSet(reg.o2p, optimizer, << >>)],
                     param_seq, optimizer)

\* for param_seq, optimizer in <pairs>: ...  (add_module and build run the
\* same loop, statement for statement)
RECURSIVE register_pairs(_, _)
register_pairs(reg, pairs) ==
  IF pairs = << >> THEN reg
  ELSE register_pairs(register_pair(reg, Head(pairs)[1], Head(pairs)[2]),
                      Tail(pairs))

----------------------------------------------------------------------------
(* The module container (MultiAgentRLModule), as far as the trainer uses   *)
(* it: a mapping module id -> module.                                      *)

\* MultiAgentRLModule.add_module: identifiers are unique
container_add_module(container, module_id, module) ==
  IF module_id \in DOMAIN container
  THEN [exc |-> "ValueError", container |-> container]
  ELSE [exc |-> "none", container |-> DictSet(container, module_id, module)]

\* MultiAgentRLModule.remove_module
container_remove_module(container, module_id) == DictDel(container, module_id)

\* MultiAgentRLModule.get_state: the state of every module, by id
container_get_state(module_state) == module_state

\* MultiAgentRLModule.set_state: every module takes its state from the
\* snapshot, which must have one for each
container_set_state(module_state, snapshot) ==
  IF DOMAIN module_state \subseteq DOMAIN snapshot
  THEN [exc |-> "none",
        module_state |-> [module_id \in DOMAIN module_state |-> snapshot[module_id]]]
  ELSE [exc |-> "KeyError", module_state |-> module_state]

ModuleParams(module) == Range(get_parameters(module))

\* the parameters of the modules of a container
ContainerParams(container) == UNION {ModuleParams(container[i]) : i \in DOMAIN container}

\* the containers module_class and module_kwargs can describe
Containers ==
  {c \in UNION {[ids -> Modules] : ids \in SUBSET ModuleIds} :
     \A i, j \in DOMAIN c : i # j => c[i] # c[j]}

\* RLTrainer._make_module: what it returns, or the error it raises
_make_module(cls, container) ==
  IF cls = "MultiAgentRLModule" THEN [exc |-> "none", module |-> container]
  ELSE IF cls = "RLModule" THEN [exc |-> "none", module |-> container]
  ELSE [exc |-> "ValueError", module |-> None]

\* the containers a module class can build: a single-agent class is wrapped
\* into a container of exactly one module
BuildableContainers(cls) ==
  IF cls = "RLModule" THEN {c \in Containers : Cardinality(DOMAIN c) = 1}
  ELSE Containers

\* RLTrainer._make_distributed_module: raises unless the trainer overrides it
_make_distributed_module(ov, container) ==
  IF "_make_distributed_module" \in ov
  THEN [exc |-> "none", module |-> container]
  ELSE [exc |-> "NotImplementedError", module |-> None]

\* the check that lets every call through
check_never_raises(m) == FALSE

\* RLTrainer.__check_if_build_called: TRUE when it raises ValueError
__check_if_build_called(m) == m = None

----------------------------------------------------------------------------
(* What a call leaves behind: the exception it raised ("none" when it      *)
(* returned), the hooks it invoked, its return value, and the trainer's    *)
(* module container and registry after it.                                 *)

Hook(name) == [hook |-> name, out |-> "-"]
HookOut(name, out) == [hook |-> name, out |-> out]
HookNames(log) == [i \in 1..Len(log) |-> log[i].hook]
Repeat(entry, n) == [i \in 1..n |-> entry]

Outcome(e, log, r, m, reg) == [exc |-> e, log |-> log, ret |-> r, module |-> m, reg |-> reg]

\* the get_param_ref calls the registration loop makes
RECURSIVE register_log(_)
register_log(pairs) ==
  IF pairs = << >> THEN << >>
  ELSE Repeat(Hook("get_param_ref"), Len(Head(pairs)[1])) \o register_log(Tail(pairs))

\* the exception of a hook that fails
HookError == "HookError"

\* the get_param_ref calls a registration loop over `pairs` makes
RefCalls(pairs) == Len(register_log(pairs))

\* the iterations the registration loop has completed when its k-th
\* get_param_ref call raises: the pairs before the current one, and the
\* current pair up to the parameter whose reference was asked for (its
\* optimizer's list was reset when the pair began)
RECURSIVE PairsBefore(_, _)
PairsBefore(pairs, k) ==
  IF pairs = << >> THEN << >>
  ELSE LET param_seq == Head(pairs)[1] IN
       IF k <= Len(param_seq)
       THEN <<<<SubSeq(param_seq, 1, k - 1), Head(pairs)[2]>>>>
       ELSE <<Head(pairs)>> \o PairsBefore(Tail(pairs), k - Len(param_seq))

\* the registration loop of build and add_module as a whole; get_param_ref
\* call number `raising` raises (0: none does)
registration(reg, pairs, raising) ==
  IF raising \in 1..RefCalls(pairs)
  THEN LET done == PairsBefore(pairs, raising) IN
       [exc |-> HookError,
        log |-> register_log(done) \o <<Hook("get_param_ref")>>,
        reg |-> register_pairs(reg, done)]
  ELSE [exc |-> "none", log |-> register_log(pairs), reg |-> register_pairs(reg, pairs)]

\* which hook of a build or add_module call raises: 0 none, 1 the wiring
\* hook (configure_optimizers, set_optimizer_fn), 1 + k the k-th
\* get_param_ref call
WiringRaises(fail) == fail = 1
RefRaising(fail) == IF fail > 1 THEN fail - 1 ELSE 0
Failures(pairs) == 0..(1 + RefCalls(pairs))

\* RLTrainer.build
build(dist, ov, cls, container, pairs, reg, fail) ==
  LET made == IF dist THEN _make_distributed_module(ov, container)
              ELSE _make_module(cls, container)
      maker == Hook(IF dist THEN "_make_distributed_module" ELSE "_make_module")
      registered == registration(reg, pairs, RefRaising(fail))
  IN IF made.exc # "none"
     THEN Outcome(made.exc, <<maker>>, None, None, reg)
     ELSE IF WiringRaises(fail)
     THEN Outcome(HookError, <<maker, Hook("configure_optimizers")>>, None,
                  Built(made.module, NewStates(made.module)), reg)
     ELSE Outcome(registered.exc,
                  <<maker, Hook("configure_optimizers")>> \o registered.log,
                  None, Built(made.module, NewStates(made.module)), registered.reg)

\* the wiring of add_module: the pairs set_optimizer_fn(module) returns and
\* the hooks it invokes; set_optimizer_fn is None or Some(the pairs the
\* caller's function returns), optimizer_cls is None or Some(the optimizer
\* get_optimizer_obj makes of it); without a caller's function the default
\* one gives all parameters of the module to that optimizer
wiring(module, set_optimizer_fn, optimizer_cls) ==
  IF set_optimizer_fn = None
  THEN [pairs |-> <<<<get_parameters(module), Val(optimizer_cls)>>>>,
        log |-> <<HookOut("get_optimizer_obj", Val(optimizer_cls)),
                  Hook("get_parameters")>>]
  ELSE [pairs |-> Val(set_optimizer_fn), log |-> <<Hook("set_optimizer_fn")>>]

\* the second half of add_module: call the wiring function, register its
\* pairs, then insert the module into the container
register_and_insert(m, reg, module_id, module, wired, fail) ==
  LET made == <<Hook("from_model_config")>>
      registered == registration(reg, wired.pairs, RefRaising(fail))
      log == made \o wired.log \o registered.log
  IN IF WiringRaises(fail)
     THEN Outcome(HookError, made \o SubSeq(wired.log, 1, 1), None, m, reg)
     ELSE IF registered.exc # "none"
     THEN Outcome(registered.exc, log, None, m, registered.reg)
     ELSE IF m = None
     THEN Outcome("AttributeError", log, None, m, registered.reg)
     ELSE LET added == container_add_module(Val(m), module_id, module) IN
          Outcome(added.exc, log \o <<Hook("container.add_module")>>, None,
                  Built(added.container,
                        IF added.exc = "none"
                        THEN DictSet(State(m), module_id, InitialState)
                        ELSE State(m)),
                  registered.reg)

\* an add_module that inserts the module without an optimizer when it is
\* given neither a wiring function nor an optimizer class
add_module_unwired(m, reg, module_id, module, set_optimizer_fn, optimizer_cls, fail) ==
  IF __check_if_build_called(m)
  THEN Outcome("ValueError", << >>, None, m, reg)
  ELSE register_and_insert(m, reg, module_id, module,
                           IF set_optimizer_fn = None /\ optimizer_cls = None
                           THEN [pairs |-> << >>, log |-> << >>]
                           ELSE wiring(module, set_optimizer_fn, optimizer_cls),
                           fail)

\* RLTrainer.add_module
add_module(m, reg, module_id, module, set_optimizer_fn, optimizer_cls, fail) ==
  IF __check_if_build_called(m)
  THEN Outcome("ValueError", << >>, None, m, reg)
  ELSE IF set_optimizer_fn = None /\ optimizer_cls = None
  THEN Outcome("ValueError", <<Hook("from_model_config")>>, None, m, reg)
  ELSE register_and_insert(m, reg, module_id, module,
                           wiring(module, set_optimizer_fn, optimizer_cls), fail)

\* a loop body that deletes without the membership tests
unregister_param_unchecked(reg, param) ==
  LET param_ref == get_param_ref(param) IN
  IF param_ref \notin DOMAIN reg.params \/ param_ref \notin DOMAIN reg.p2o
  THEN [exc |-> "KeyError", reg |-> reg]
  ELSE [exc |-> "none",
        reg |-> Registry(DictDel(reg.o2p, reg.p2o[param_ref]),
                         DictDel(reg.p2o, param_ref),
                         DictDel(reg.params, param_ref))]

\* the loop body of remove_module: one parameter of the removed module; no
\* statement of it can raise
unregister_param(reg, param) ==
  LET param_ref == get_param_ref(param)
      ps == IF param_ref \in DOMAIN reg.params
            THEN DictDel(reg.params, param_ref) ELSE reg.params
  IN [exc |-> "none",
      reg |-> IF param_ref \in DOMAIN reg.p2o
              THEN LET optimizer == reg.p2o[param_ref] IN
                   Registry(IF optimizer \in DOMAIN reg.o2p
                            THEN DictDel(reg.o2p, optimizer) ELSE reg.o2p,
                            DictDel(reg.p2o, param_ref), ps)
              ELSE Registry(reg.o2p, reg.p2o, ps)]

\* for param in parameters: ...
RECURSIVE unregister_params(_, _)
unregister_params(reg, parameters) ==
  IF parameters = << >> THEN [exc |-> "none", reg |-> reg]
  ELSE LET first == unregister_param(reg, Head(parameters)) IN
       IF first.exc # "none" THEN first
       ELSE unregister_params(first.reg, Tail(parameters))

\* RLTrainer.remove_module
remove_module(m, reg, module_id) ==
  IF __check_if_build_called(m)
  THEN Outcome("ValueError", << >>, None, m, reg)
  ELSE IF m = None
  THEN Outcome("TypeError", << >>, None, m, reg)
  ELSE IF module_id \notin DOMAIN Val(m)
  THEN Outcome("KeyError", <<Hook("container.__getitem__")>>, None, m, reg)
  ELSE
    LET module == Val(m)[module_id]
        parameters == get_parameters(module)
        unregistered == unregister_params(reg, parameters)
        log == <<Hook("container.__getitem__"), Hook("get_parameters")>>
                 \o Repeat(Hook("get_param_ref"), Len(parameters))
    IN IF unregistered.exc # "none"
       THEN Outcome(unregistered.exc, log, None, m, unregistered.reg)
       ELSE Outcome("none", log \o <<Hook("container.remove_module")>>, None,
                    Built(container_remove_module(Val(m), module_id),
                          DictDel(State(m), module_id)),
                    unregistered.reg)

\* RLTrainer.TOTAL_LOSS_KEY
TOTAL_LOSS_KEY == "total_loss"

\* the orders in which a forward output can list module ids
RECURSIVE Orders(_)
Orders(ids) ==
  IF ids = {} THEN {<< >>}
  ELSE UNION {{<<module_id>> \o rest : rest \in Orders(ids \ {module_id})} :
                module_id \in ids}

\* the loop of compute_loss over the module ids of fwd_out that are left;
\* `first` is the module whose loss object loss_total was bound to, and
\* loss_total is None or Some(its value).  `loss_total += loss` on a loss
\* type that adds in place (a torch tensor, a numpy array) changes the
\* object the first module's results hold; on a type that does not (a float,
\* a tf tensor) it binds loss_total to a new object
RECURSIVE compute_loss_loop(_, _, _, _, _, _)
compute_loss_loop(module_ids, losses, in_place, results_all_modules, loss_total, first) ==
  IF module_ids = << >>
  THEN DictSet(results_all_modules, TOTAL_LOSS_KEY, loss_total)
  ELSE LET module_id == Head(module_ids)
           loss == losses[module_id]
           results == DictSet(results_all_modules, module_id, Some(loss))
       IN IF loss_total = None
          THEN compute_loss_loop(Tail(module_ids), losses, in_place, results,
                                 Some(loss), module_id)
          ELSE LET sum == Val(loss_total) + loss IN
               compute_loss_loop(Tail(module_ids), losses, in_place,
                                 IF in_place THEN DictSet(results, first, Some(sum))
                                 ELSE results,
                                 Some(sum), first)

\* RLTrainer.compute_loss (the default one); fwd_out lists the module ids of
\* the forward output in iteration order, losses[module_id] is the
\* "total_loss" of the results the per-module hook returns for the module
\* (kept as Some(value) in the result), and loss_overridden tells whether
\* the concrete trainer supplies that hook
compute_loss(m, reg, fwd_out, losses, in_place, loss_overridden) ==
  IF fwd_out # << >> /\ ~loss_overridden
  THEN Outcome("NotImplementedError", <<Hook("_compute_loss_per_module")>>, None, m, reg)
  ELSE Outcome("none",
               [i \in 1..Len(fwd_out) |->
                  HookOut("_compute_loss_per_module", losses[fwd_out[i]])],
               Some(compute_loss_loop(fwd_out, losses, in_place, EmptyDict, None, "-")),
               m, reg)

\* the pipeline that applies the gradients before post-processing them
PipelineApplyFirst ==
  <<"_convert_batch_type", "forward_train", "compute_loss", "compute_gradients",
    "apply_gradients", "postprocess_gradients", "compile_results">>

\* the stages of RLTrainer._update, in statement order
LocalPipeline ==
  <<"_convert_batch_type", "forward_train", "compute_loss", "compute_gradients",
    "postprocess_gradients", "apply_gradients", "compile_results">>

\* the container after the backend updated its modules' parameters
Stepped(m, stepped) == IF m = None THEN m ELSE Built(Val(m), stepped)

\* a pipeline that applies the gradients it has even when a stage failed
_update_applies_anyway(m, reg, fail, result, stepped, loss_overridden) ==
  LET n == Len(LocalPipeline)
      ran(k) == [i \in 1..k |->
                   IF i = n THEN HookOut(LocalPipeline[i], result)
                   ELSE Hook(LocalPipeline[i])]
      failed(k, e) == Outcome(e, SubSeq(ran(n), 1, k) \o <<Hook("apply_gradients")>>,
                              None, Stepped(m, stepped), reg)
  IN IF fail = 1
     THEN Outcome(HookError, SubSeq(ran(n), 1, 1), None, m, reg)
     ELSE IF m = None
     THEN Outcome("AttributeError", SubSeq(ran(n), 1, 1), None, m, reg)
     ELSE IF fail = 2
     THEN failed(2, HookError)
     ELSE IF ~loss_overridden /\ DOMAIN Val(m) # {}
     THEN failed(3, "NotImplementedError")
     ELSE IF fail # 0
     THEN failed(fail, HookError)
     ELSE Outcome("none", ran(n), Some(ran(n)[n].out), Stepped(m, stepped), reg)

\* RLTrainer._update; stage number `fail` raises (0: none does),
\* compile_results returns `result`, apply_gradients leaves the modules in
\* the states `stepped` (also when it raises part-way), and
\* loss_overridden tells whether the concrete trainer supplies the
\* per-module loss (the base _compute_loss_per_module raises for the first
\* module of the forward output)
_update(m, reg, fail, result, stepped, loss_overridden) ==
  LET n == Len(LocalPipeline)
      ran(k) == [i \in 1..k |->
                   IF i = n THEN HookOut(LocalPipeline[i], result)
                   ELSE Hook(LocalPipeline[i])]
  IN IF fail = 1
     THEN Outcome(HookError, SubSeq(ran(n), 1, 1), None, m, reg)
     ELSE IF m = None
     THEN Outcome("AttributeError", SubSeq(ran(n), 1, 1), None, m, reg)
     ELSE IF fail = 2
     THEN Outcome(HookError, SubSeq(ran(n), 1, 2), None, m, reg)
     ELSE IF ~loss_overridden /\ DOMAIN Val(m) # {}
     THEN Outcome("NotImplementedError", SubSeq(ran(n), 1, 3), None, m, reg)
     ELSE IF fail \in 3..5
     THEN Outcome(HookError, SubSeq(ran(n), 1, fail), None, m, reg)
     ELSE IF fail # 0
     THEN Outcome(HookError, SubSeq(ran(n), 1, fail), None, Stepped(m, stepped), reg)
     ELSE Outcome("none", ran(n), Some(ran(n)[n].out), Stepped(m, stepped), reg)

\* a base do_distributed_update that returns instead of raising
do_distributed_update_silent(m, reg, ov, fail, result, stepped) ==
  IF "do_distributed_update" \in ov /\ fail # 0
  THEN Outcome(HookError, <<Hook("do_distributed_update")>>, None,
               Stepped(m, stepped), reg)
  ELSE Outcome("none", <<HookOut("do_distributed_update", result)>>, Some(result),
               Stepped(m, stepped), reg)

\* RLTrainer.do_distributed_update, or the concrete trainer's override of
\* it, which leaves the modules in the states `stepped`
do_distributed_update(m, reg, ov, fail, result, stepped) ==
  IF "do_distributed_update" \notin ov
  THEN Outcome("NotImplementedError", <<Hook("do_distributed_update")>>, None, m, reg)
  ELSE IF fail # 0
  THEN Outcome(HookError, <<Hook("do_distributed_update")>>, None,
               Stepped(m, stepped), reg)
  ELSE Outcome("none", <<HookOut("do_distributed_update", result)>>, Some(result),
               Stepped(m, stepped), reg)

\* an update that runs the local pipeline whatever the distributed flag says
update_always_local(m, reg, dist, ov, fail, result, stepped, loss_overridden) ==
  IF __check_if_build_called(m)
  THEN Outcome("ValueError", << >>, None, m, reg)
  ELSE _update(m, reg, fail, result, stepped, loss_overridden)

\* RLTrainer.update
update(m, reg, dist, ov, fail, result, stepped, loss_overridden) ==
  IF __check_if_build_called(m)
  THEN Outcome("ValueError", << >>, None, m, reg)
  ELSE IF ~dist
  THEN _update(m, reg, fail, result, stepped, loss_overridden)
  ELSE do_distributed_update(m, reg, ov, fail, result, stepped)

\* RLTrainer.additional_update; per_module_overridden: the concrete trainer
\* supplies _additional_update_per_module (the default raises)
additional_update(m, reg, per_module_overridden, result) ==
  IF m = None
  THEN Outcome("AttributeError", << >>, None, m, reg)
  ELSE IF DOMAIN Val(m) = {}
  THEN Outcome("none", <<Hook("container.keys")>>, Some(EmptyDict), m, reg)
  ELSE IF ~per_module_overridden
  THEN Outcome("NotImplementedError",
               <<Hook("container.keys"), Hook("_additional_update_per_module")>>,
               None, m, reg)
  ELSE Outcome("none",
               <<Hook("container.keys")>>
                 \o Repeat(HookOut("_additional_update_per_module", result),
                           Cardinality(DOMAIN Val(m))),
               Some([module_id \in DOMAIN Val(m) |-> result]), m, reg)

\* a get_state that files the container's state under another key
get_state_other_key(m, reg) ==
  IF __check_if_build_called(m)
  THEN Outcome("ValueError", << >>, None, m, reg)
  ELSE IF m = None
  THEN Outcome("AttributeError", << >>, None, m, reg)
  ELSE LET snapshot == container_get_state(State(m)) IN
       Outcome("none", <<HookOut("container.get_state", snapshot)>>,
               Some([state |-> snapshot]), m, reg)

\* RLTrainer.get_state
get_state(m, reg) ==
  IF __check_if_build_called(m)
  THEN Outcome("ValueError", << >>, None, m, reg)
  ELSE IF m = None
  THEN Outcome("AttributeError", << >>, None, m, reg)
  ELSE LET snapshot == container_get_state(State(m)) IN
       Outcome("none", <<HookOut("container.get_state", snapshot)>>,
               Some([module_state |-> snapshot]), m, reg)

\* RLTrainer.set_state; state.get("module_state", {}) goes to the container
set_state(m, reg, state) ==
  IF __check_if_build_called(m)
  THEN Outcome("ValueError", << >>, None, m, reg)
  ELSE IF m = None
  THEN Outcome("AttributeError", << >>, None, m, reg)
  ELSE LET snapshot == IF "module_state" \in DOMAIN state
                       THEN state.module_state ELSE EmptyDict
           restored == container_set_state(State(m), snapshot)
       IN Outcome(restored.exc, <<HookOut("container.set_state", snapshot)>>, None,
                  Built(Val(m), restored.module_state), reg)

----------------------------------------------------------------------------
\* a call of a public method: its name, the module id it names, the module
\* it constructs or removes, and its other argument
CallWith(name, module_id, module, arg) ==
  [op |-> name, module_id |-> module_id, module |-> module, arg |-> arg]

Call(name, module_id, module) == CallWith(name, module_id, module, "-")

NoCall == Call("-", "-", "-")

\* the trainers considered: local ones, and distributed ones with every
\* choice of overridden distributed hooks
Init ==
  /\ distributed \in BOOLEAN
  /\ overridden \in SUBSET DistributedHooks
  /\ distributed = FALSE => overridden = {}
  /\ _module = None
  /\ _optim_to_param = EmptyDict
  /\ _param_to_optim = EmptyDict
  /\ _params = EmptyDict
  /\ build_called = FALSE
  /\ build_returned = FALSE
  /\ before_add = None
  /\ caller = "ready"
  /\ lastOp = NoCall
  /\ exc = "none"
  /\ hookLog = << >>
  /\ ret = None

CurrentRegistry == Registry(_optim_to_param, _param_to_optim, _params)

\* the call `call` ended with outcome `outcome`
Returns(call, outcome) ==
  \E o \in {outcome} :
  /\ caller' = "returned"
  /\ lastOp' = call
  /\ exc' = o.exc
  /\ hookLog' = o.log
  /\ ret' = o.ret
  /\ _module' = o.module
  /\ _optim_to_param' = o.reg.o2p
  /\ _param_to_optim' = o.reg.p2o
  /\ _params' = o.reg.params
  /\ UNCHANGED config

\* trainer.build(), where module_class, the container it builds, the pairs
\* configure_optimizers returns and the hook that raises are one of
\* `choices`; a trainer is built once (again only after a build that left
\* no container)
BuildFrom(choices) ==
  /\ caller = "ready"
  /\ _module = None
  /\ build_called' = TRUE
  /\ before_add' = None
  /\ \E choice \in choices :
       \E outcome \in {build(distributed, overridden, choice[1], choice[2], choice[3],
                             CurrentRegistry, choice[4])} :
          /\ Returns(Call("build", "-", "-"), outcome)
          /\ build_returned' = (build_returned \/ outcome.exc = "none")

\* configure_optimizers names parameters of the container's modules
ConfiguredPairLists(container) == PairLists(ContainerParams(container))

\* configure_optimizers gives all parameters of the container to one optimizer
OneOptimizerPairLists(container) ==
  {<<<<Select(ParamOrder, ContainerParams(container)), o>>>> : o \in Optimizers}

\* the (module_class, container) choices of a trainer's constructor
ModuleChoices == UNION {{cls} \X BuildableContainers(cls) : cls \in ModuleClasses}

\* build() of a trainer whose hooks do not raise
Build ==
  BuildFrom(UNION {{<<choice[1], choice[2], pairs, 0>> :
                      pairs \in ConfiguredPairLists(choice[2])} :
                     choice \in ModuleChoices})

\* build() of a trainer with one optimizer, whose hooks may raise
BuildOneOptimizer ==
  BuildFrom(UNION {UNION {{<<choice[1], choice[2], pairs, fail>> : fail \in Failures(pairs)} :
                            pairs \in OneOptimizerPairLists(choice[2])} :
                     choice \in ModuleChoices})

\* a freshly constructed module instance is none of the live ones
LiveModules == IF _module = None THEN {} ELSE Range(Val(_module))

\* the (set_optimizer_fn, optimizer_cls) arguments of add_module without a
\* wiring function: optimizer_cls is None or Some(the optimizer made of it);
\* get_optimizer_obj initializes a new optimizer, one the registry does not
\* track
DefaultWiringArgs(module) ==
  {None} \X ({None} \cup {Some(o) : o \in Optimizers \ DOMAIN _optim_to_param})

\* the (set_optimizer_fn, optimizer_cls) arguments of add_module with a
\* wiring function, which names parameters of the new module and of the
\* modules in the container
WiringFnArgs(module) ==
  {Some(pairs) :
     pairs \in PairLists(ModuleParams(module) \cup UNION {ModuleParams(l) : l \in LiveModules})}
    \X {None}

\* the hooks that can raise in an add_module with these wiring arguments
WiringFailures(module, args) ==
  IF args = <<None, None>> THEN {0}
  ELSE Failures(wiring(module, args[1], args[2]).pairs)

\* trainer.add_module(module_id=..., module_cls=..., module_kwargs=..., ...)
\* with <<module_id, module, <<set_optimizer_fn, optimizer_cls>>, fail>> one
\* of `calls`
AddModuleFrom(calls) ==
  /\ caller = "ready"
  /\ UNCHANGED history
  /\ \E call \in calls :
       \E outcome \in {add_module(_module, CurrentRegistry, call[1], call[2],
                                  call[3][1], call[3][2], call[4])} :
          /\ Returns(CallWith("add_module", call[1], call[2], call[3]), outcome)
          /\ before_add' = IF outcome.exc = "none" /\ call[3][1] = None
                           THEN Some([registry |-> CurrentRegistry,
                                      ids |-> DOMAIN Val(_module),
                                      module_id |-> call[1],
                                      module |-> call[2]])
                           ELSE None

\* add_module on a trainer whose hooks do not raise
AddModule ==
  AddModuleFrom(UNION {ModuleIds \X {module}
                         \X (WiringFnArgs(module) \cup DefaultWiringArgs(module)) \X {0} :
                         module \in Modules \ LiveModules})

\* add_module without a wiring function, on a trainer whose hooks may raise
AddModuleDefaultWiring ==
  AddModuleFrom(UNION {UNION {ModuleIds \X {module} \X {args} \X WiringFailures(module, args) :
                                args \in DefaultWiringArgs(module)} :
                         module \in Modules \ LiveModules})

\* trainer.remove_module(module_id)
RemoveModule ==
  /\ caller = "ready"
  /\ UNCHANGED history
  /\ before_add' = None
  /\ \E module_id \in ModuleIds :
       Returns(Call("remove_module", module_id,
                    IF _module # None /\ module_id \in DOMAIN Val(_module)
                    THEN Val(_module)[module_id] ELSE "-"),
               remove_module(_module, CurrentRegistry, module_id))

\* what compile_results, a distributed update or a per-module update returns
Results == {"r1", "r2"}

\* the ids of the modules in the container
LiveIds == IF _module = None THEN {} ELSE DOMAIN Val(_module)

\* the states the modules `ids` can be in together
Snapshots(ids) == [ids -> ModuleStates]

\* trainer.update(batch)
Update ==
  /\ caller = "ready"
  /\ UNCHANGED history
  /\ before_add' = None
  /\ \E fail \in 0..Len(LocalPipeline), result \in Results,
        stepped \in Snapshots(LiveIds), loss_overridden \in BOOLEAN :
       Returns(Call("update", "-", "-"),
               update(_module, CurrentRegistry, distributed, overridden, fail, result,
                      stepped, loss_overridden))

\* trainer.additional_update(...)
AdditionalUpdate ==
  /\ caller = "ready"
  /\ UNCHANGED history
  /\ before_add' = None
  /\ \E per_module_overridden \in BOOLEAN, result \in Results :
       Returns(Call("additional_update", "-", "-"),
               additional_update(_module, CurrentRegistry, per_module_overridden, result))

\* trainer.get_state()
GetState ==
  /\ caller = "ready"
  /\ UNCHANGED history
  /\ before_add' = None
  /\ Returns(Call("get_state", "-", "-"), get_state(_module, CurrentRegistry))

\* trainer.set_state(state)
SetState ==
  /\ caller = "ready"
  /\ UNCHANGED history
  /\ before_add' = None
  /\ \E state \in {EmptyDict}
                   \cup {[module_state |-> snapshot] :
                          snapshot \in UNION {Snapshots(ids) : ids \in SUBSET ModuleIds}} :
       Returns(CallWith("set_state", "-", "-", state),
               set_state(_module, CurrentRegistry, state))

\* the loss values of the per-module hook
Losses == 0..MaxLoss

\* trainer.compute_loss(fwd_out=..., batch=...)
ComputeLoss ==
  /\ caller = "ready"
  /\ UNCHANGED history
  /\ before_add' = None
  /\ \E ids \in SUBSET ModuleIds, in_place \in BOOLEAN, loss_overridden \in BOOLEAN :
       \E fwd_out \in Orders(ids), losses \in [ids -> Losses] :
         Returns(CallWith("compute_loss", "-", "-",
                          [fwd_out |-> fwd_out, losses |-> losses, in_place |-> in_place]),
                 compute_loss(_module, CurrentRegistry, fwd_out, losses, in_place,
                              loss_overridden))

\* the caller takes the result and is ready for the next call
Return ==
  /\ caller = "returned"
  /\ caller' = "ready"
  /\ lastOp' = NoCall
  /\ exc' = "none"
  /\ hookLog' = << >>
  /\ ret' = None
  /\ UNCHANGED <<config, _module, registry, history, before_add>>

Next ==
  \/ Build
  \/ Update
  \/ AdditionalUpdate
  \/ AddModule
  \/ RemoveModule
  \/ GetState
  \/ SetState
  \/ Return

\* the local (distributed=False) trainers
InitLocal == Init /\ distributed = FALSE

\* a local trainer under callers that wire optimizers in every way
Spec == InitLocal /\ [][Next]_vars

\* the calls of callers that leave the wiring to the defaults: one optimizer
\* at build, optimizer_cls in add_module
NextDefaultWiring ==
  \/ BuildOneOptimizer
  \/ Update
  \/ AdditionalUpdate
  \/ AddModuleDefaultWiring
  \/ RemoveModule
  \/ GetState
  \/ SetState
  \/ Return

\* every trainer, local and distributed with each choice of overridden
\* distributed hooks, under callers that leave the wiring to the defaults
SpecTrainers == Init /\ [][NextDefaultWiring]_vars

\* the calls that change the registry
NextRegistry ==
  \/ Build
  \/ AddModule
  \/ RemoveModule
  \/ Return

\* a local trainer under callers that wire optimizers in every way and only
\* build, add and remove modules
SpecRegistry == InitLocal /\ [][NextRegistry]_vars

\* the calls of a caller that only computes losses
NextLoss ==
  \/ ComputeLoss
  \/ Return

\* compute_loss on every trainer, over every forward output
SpecLoss == Init /\ [][NextLoss]_vars

----------------------------------------------------------------------------
(* Claims about the registry.                                              *)

LastIs(ops) == lastOp.op \in ops

\* the tracked optimizers whose owned list contains the reference r
Owners(o2p, r) == {o \in DOMAIN o2p : r \in Range(o2p[o])}

ModuleRefs(module) == {get_param_ref(param) : param \in Range(get_parameters(module))}

\* C1: after a successful build, add_module or remove_module the three
\* mappings are mutually consistent: reference->parameter and
\* reference->optimizer have the same keys, and the owning optimizer of
\* every reference is tracked and lists the reference
C1_RegistryConsistent ==
  (LastIs({"build", "add_module", "remove_module"}) /\ exc = "none") =>
    /\ DOMAIN _params = DOMAIN _param_to_optim
    /\ \A r \in DOMAIN _param_to_optim :
         /\ _param_to_optim[r] \in DOMAIN _optim_to_param
         /\ r \in Range(_optim_to_param[_param_to_optim[r]])

\* C2: after a successful build, add_module or remove_module every
\* parameter reference is in the owned list of at most one tracked optimizer
C2_AtMostOneOwner ==
  (LastIs({"build", "add_module", "remove_module"}) /\ exc = "none") =>
    \A r \in Refs : Cardinality(Owners(_optim_to_param, r)) <= 1

\* C3: a successful remove_module drops from every owned list the removed
\* module's references, deletes an optimizer exactly when that empties its
\* list, and leaves the other optimizers as they were
C3_RemoveDeletesExactlyEmptied ==
  [][(caller = "ready" /\ lastOp'.op = "remove_module" /\ exc' = "none") =>
       LET removed == ModuleRefs(lastOp'.module)
           Keep(r) == r \notin removed
       IN \A o \in DOMAIN _optim_to_param :
            LET remaining == SelectSeq(_optim_to_param[o], Keep) IN
            IF remaining = _optim_to_param[o] \/ remaining # << >>
            THEN /\ o \in DOMAIN _optim_to_param'
                 /\ _optim_to_param'[o] = remaining
            ELSE o \notin DOMAIN _optim_to_param']_vars

\* C4: after a successful remove_module no reference of the removed module
\* is left in any of the three mappings
C4_RemovedRefsGone ==
  (LastIs({"remove_module"}) /\ exc = "none") =>
    \A r \in ModuleRefs(lastOp.module) :
      /\ r \notin DOMAIN _params
      /\ r \notin DOMAIN _param_to_optim
      /\ Owners(_optim_to_param, r) = {}

\* C5: no call that returns gives a registered reference another owning
\* optimizer: a
\* registration that names a reference owned by a different optimizer
\* fails and reassigns nothing
C5_NoSilentReassign ==
  [][(caller = "ready" /\ exc' = "none") =>
       \A r \in (DOMAIN _param_to_optim) \cap (DOMAIN _param_to_optim') :
         _param_to_optim'[r] = _param_to_optim[r]]_vars

----------------------------------------------------------------------------
(* Claims about the build order and the update dispatch.                   *)

RegistryEmpty ==
  /\ _optim_to_param = EmptyDict
  /\ _param_to_optim = EmptyDict
  /\ _params = EmptyDict

\* C6: while build() has never been called, update, add_module,
\* remove_module, get_state and set_state raise ValueError before any hook
\* is invoked, and the container stays None and the registry empty
C6_NotBuiltRaises ==
  ~build_called =>
    /\ _module = None
    /\ RegistryEmpty
    /\ LastIs({"update", "add_module", "remove_module", "get_state", "set_state"}) =>
         (exc = "ValueError" /\ hookLog = << >> /\ ret = None)

C6_Witness ==
  ~build_called /\ LastIs({"add_module"}) /\ exc = "ValueError" /\ hookLog = << >>

\* C7: additional_update called before build() raises the same ValueError
\* ('trainer not built') as the other public operations
C7_AdditionalUpdateNotBuilt ==
  (~build_called /\ LastIs({"additional_update"})) => exc = "ValueError"

\* C8: a local update that returns invoked batch conversion, forward_train,
\* compute_loss, compute_gradients, postprocess_gradients, apply_gradients
\* and compile_results once each, in this order, and returns what
\* compile_results returned
C8_PipelineOrder ==
  (LastIs({"update"}) /\ ~distributed /\ exc = "none") =>
    /\ HookNames(hookLog) =
         <<"_convert_batch_type", "forward_train", "compute_loss",
           "compute_gradients", "postprocess_gradients", "apply_gradients",
           "compile_results">>
    /\ ret = Some(hookLog[Len(hookLog)].out)

C8_Witness ==
  /\ LastIs({"update"}) /\ ~distributed /\ exc = "none"
  /\ Len(hookLog) = 7 /\ ret = Some("r2")

\* C9 as claimed: on a distributed trainer that overrides neither
\* distributed hook every update raises NotImplementedError
C9_Original ==
  (distributed /\ overridden = {} /\ LastIs({"update"})) =>
    exc = "NotImplementedError"

\* C9 as amended: on a distributed trainer that does not override
\* do_distributed_update, update never returns: it raises
\* NotImplementedError once the trainer is built and the build-order
\* ValueError before; a trainer that overrides neither distributed hook is
\* never built (its build() raises NotImplementedError), so all its updates
\* raise the ValueError
C9_DistributedUpdateFails ==
  /\ (distributed /\ "do_distributed_update" \notin overridden /\ LastIs({"update"})) =>
       /\ exc = (IF _module = None THEN "ValueError" ELSE "NotImplementedError")
       /\ ret = None
  /\ (distributed /\ overridden = {}) =>
       /\ _module = None
       /\ LastIs({"build"}) => exc = "NotImplementedError"

C9_Witness ==
  /\ distributed /\ "do_distributed_update" \notin overridden
  /\ LastIs({"update"}) /\ _module # None /\ exc = "NotImplementedError"

\* C10: an update of a built trainer invokes, when distributed, the
\* distributed-update hook exactly once and no stage of the local pipeline,
\* and when local, never the distributed-update hook
C10_DispatchExclusive ==
  (LastIs({"update"}) /\ _module # None) =>
    IF distributed
    THEN HookNames(hookLog) = <<"do_distributed_update">>
    ELSE \A i \in 1..Len(hookLog) : hookLog[i].hook # "do_distributed_update"

C10_Witness ==
  /\ LastIs({"update"}) /\ _module # None /\ distributed /\ exc = "none"
  /\ HookNames(hookLog) = <<"do_distributed_update">>

----------------------------------------------------------------------------
(* Claims about add_module, remove_module and the registration loop.       *)

\* the references of a module's parameters, in the order get_parameters
\* lists them
RefSeq(module) ==
  [i \in 1..Len(get_parameters(module)) |-> get_param_ref(get_parameters(module)[i])]

IsPrefix(s, t) == Len(s) <= Len(t) /\ SubSeq(t, 1, Len(s)) = s

Count(log, name) == Cardinality({i \in 1..Len(log) : log[i].hook = name})

\* C11: an add_module with optimizer_cls and no set_optimizer_fn that
\* returns has added exactly one optimizer, the one get_optimizer_obj
\* returned, owning exactly the references of the new module's parameters in
\* get_parameters order; each of these references maps to that optimizer
\* and to its parameter, every other registry entry is as before, and the
\* container holds the module under the given id
C11_DefaultWiring ==
  [][(/\ caller = "ready"
      /\ lastOp'.op = "add_module"
      /\ exc' = "none"
      /\ lastOp'.arg[1] = None) =>
       LET module == lastOp'.module
           optimizer == Val(lastOp'.arg[2])
           refs == RefSeq(module)
       IN /\ hookLog'[2] = HookOut("get_optimizer_obj", optimizer)
          /\ optimizer \notin DOMAIN _optim_to_param
          /\ _optim_to_param' = DictSet(_optim_to_param, optimizer, refs)
          /\ DOMAIN _param_to_optim' = DOMAIN _param_to_optim \cup Range(refs)
          /\ DOMAIN _params' = DOMAIN _params \cup Range(refs)
          /\ \A param \in ModuleParams(module) :
               /\ _param_to_optim'[get_param_ref(param)] = optimizer
               /\ _params'[get_param_ref(param)] = param
          /\ \A r \in DOMAIN _param_to_optim \ Range(refs) :
               _param_to_optim'[r] = _param_to_optim[r]
          /\ \A r \in DOMAIN _params \ Range(refs) : _params'[r] = _params[r]
          /\ lastOp'.module_id \notin DOMAIN Val(_module)
          /\ Val(_module') = DictSet(Val(_module), lastOp'.module_id, module)]_vars

C11_Witness ==
  /\ LastIs({"add_module"}) /\ exc = "none" /\ lastOp.arg[1] = None
  /\ lastOp.module = "mB"
  /\ Cardinality(DOMAIN _optim_to_param) = 2
  /\ DOMAIN _params = Refs

\* C12: after a successful remove_module, running the removal loop again
\* for the parameters of the removed module raises nothing and leaves the
\* three mappings as they are
C12_UnregisterIdempotent ==
  (LastIs({"remove_module"}) /\ exc = "none") =>
    LET again == unregister_params(CurrentRegistry, get_parameters(lastOp.module)) IN
    /\ again.exc = "none"
    /\ again.reg = CurrentRegistry

C12_Witness ==
  /\ LastIs({"remove_module"}) /\ exc = "none"
  /\ get_parameters(lastOp.module) # << >>
  /\ DOMAIN _params # {}

RECURSIVE SumOf(_, _)
SumOf(module_ids, losses) ==
  IF module_ids = << >> THEN 0
  ELSE losses[Head(module_ids)] + SumOf(Tail(module_ids), losses)

\* C13: for a forward output with at least one module id, the default
\* compute_loss returns a mapping whose top-level "total_loss" is the sum of
\* the per-module "total_loss" values and whose entry for each module id is
\* what the per-module hook returned for it, unmodified
C13_LossSumUnmodified ==
  (LastIs({"compute_loss"}) /\ exc = "none" /\ lastOp.arg.fwd_out # << >>) =>
    LET results == Val(ret)
        fwd_out == lastOp.arg.fwd_out
        losses == lastOp.arg.losses
    IN /\ DOMAIN results = Range(fwd_out) \cup {TOTAL_LOSS_KEY}
       /\ results[TOTAL_LOSS_KEY] = Some(SumOf(fwd_out, losses))
       /\ \A module_id \in Range(fwd_out) : results[module_id] = Some(losses[module_id])

C15_AddRemoveAtomic ==
  [][(/\ caller = "ready"
      /\ lastOp'.op \in {"add_module", "remove_module"}
      /\ exc' = HookError) =>
       (registry' = registry /\ _module' = _module)]_vars

\* C16: add_module on a built trainer with neither set_optimizer_fn nor
\* optimizer_cls raises ValueError and leaves the three mappings and the
\* container as they were
C16_NoWiringRaises ==
  [][(/\ caller = "ready"
      /\ _module # None
      /\ lastOp'.op = "add_module"
      /\ lastOp'.arg = <<None, None>>) =>
       (exc' = "ValueError" /\ ret' = None /\ registry' = registry /\ _module' = _module)]_vars

C16_Witness ==
  /\ LastIs({"add_module"}) /\ lastOp.arg = <<None, None>>
  /\ _module # None /\ exc = "ValueError"
  /\ lastOp.module_id \notin DOMAIN Val(_module)
  /\ DOMAIN _params # {}

\* C17: a build() and an add_module call that return have invoked
\* configure_optimizers exactly once, and a call of any other operation has
\* not invoked it
C17_ConfigureOptimizersOnce ==
  /\ (LastIs({"build", "add_module"}) /\ exc = "none") =>
       Count(hookLog, "configure_optimizers") = 1
  /\ ~LastIs({"build", "add_module"}) => Count(hookLog, "configure_optimizers") = 0

\* C18: a build() or add_module call that returns keeps, for every optimizer
\* tracked before the call, the references it owned, and only adds to them
C18_TrackedOptimizerKeepsRefs ==
  [][(/\ caller = "ready"
      /\ lastOp'.op \in {"build", "add_module"}
      /\ exc' = "none") =>
       \A optimizer \in DOMAIN _optim_to_param :
         /\ optimizer \in DOMAIN _optim_to_param'
         /\ IsPrefix(_optim_to_param[optimizer], _optim_to_param'[optimizer])]_vars

----------------------------------------------------------------------------
(* Claims about failures.                                                  *)

\* C19: a local update of a built trainer that raises has invoked the
\* stages of the pipeline up to the one that failed, each once and none
\* after it, returns nothing, and leaves the registry and the container's
\* modules as they were
C19_FailureStopsPipeline ==
  [][(/\ caller = "ready"
      /\ ~distributed
      /\ _module # None
      /\ lastOp'.op = "update"
      /\ exc' # "none") =>
       /\ Len(hookLog') \in 1..Len(LocalPipeline)
       /\ HookNames(hookLog') = SubSeq(LocalPipeline, 1, Len(hookLog'))
       /\ ret' = None
       /\ registry' = registry
       /\ Val(_module') = Val(_module)]_vars

C19_Witness ==
  /\ LastIs({"update"}) /\ ~distributed /\ _module # None
  /\ exc = "NotImplementedError"
  /\ HookNames(hookLog) = <<"_convert_batch_type", "forward_train", "compute_loss">>

\* C20: while no build() call has returned, update, add_module,
\* remove_module, get_state and set_state raise the build-order ValueError
\* and the registry holds nothing
C20_FailedBuildNotBuilt ==
  ~build_returned =>
    /\ RegistryEmpty
    /\ LastIs({"update", "add_module", "remove_module", "get_state", "set_state"}) =>
         exc = "ValueError"

----------------------------------------------------------------------------
(* Claims about the registry and the live modules.                         *)

\* the references of the parameters of the modules in the container
LiveRefs == {get_param_ref(param) : param \in ContainerParams(Val(_module))}

\* C21: once a build() has returned, after every build, add_module or
\* remove_module call that returns, the keys of reference->parameter are
\* exactly the references of the parameters of the modules in the container
C21_ParamsAreLiveRefs ==
  (build_returned /\ LastIs({"build", "add_module", "remove_module"}) /\ exc = "none") =>
    DOMAIN _params = LiveRefs

\* C22: a remove_module(id) that returns, called right after the
\* add_module(id, ...) without a wiring function that put the module there,
\* restores the three mappings and the container's ids to what they were
\* before the add, whatever parameters the module has
C22_AddRemoveRestores ==
  [][(/\ caller = "ready"
      /\ before_add # None
      /\ lastOp'.op = "remove_module"
      /\ lastOp'.module_id = Val(before_add).module_id
      /\ exc' = "none") =>
       /\ Registry(_optim_to_param', _param_to_optim', _params') = Val(before_add).registry
       /\ DOMAIN Val(_module') = Val(before_add).ids]_vars

====
